---- MODULE Spec2Model ----
(***************************************************************************)
(* Order service: ingestion-to-persistence pipeline and cache-aside read   *)
(* path.  The durable store is the table public.order (order_uid primary   *)
(* key, data jsonb); the HTTP handlers and the message callback are        *)
(* goroutines sharing the store, the cache and Main's err variable.        *)
(***************************************************************************)
EXTENDS Integers, Sequences, FiniteSets, TLC

\* ------------------------------------------------------------------ bounds
\* largest value of the clock (one unit is an hour)
MaxTime == 2
\* largest number of undelivered messages on the topic
MaxBus == 1
\* the HTTP connections served concurrently, each handling one request at a time
Conns == {1, 2}

\* ------------------------------------------------------ program constants
\* order_uid varchar(19)
MaxUidLen == 19
\* time.Hour, the ttl Handler.get passes to cache.Set, in clock units
Hour == 1

\* ----------------------------------------------------------------- orders
\* order identifiers: two that fit the key column and one of 20 characters
U1 == "b563feb7b2b84b6"
U2 == "a1b2c3d4e5f6a7b"
ULong == "b563feb7b2b84b6test0"
UIDS == {U1, U2, ULong}

\* Order.Items is a slice: nil, or a sequence of items (an item is
\* abstracted to its chrt_id)
NilItems == [isNil |-> TRUE, elems |-> <<>>]
ItemsOf(s) == [isNil |-> FALSE, elems |-> s]

\* domain.Order, reduced to one field of each kind: a string (order_uid),
\* a nested integer (payment.amount) and a slice of structs (items)
MkOrder(uid, amount, items) == [OrderUID |-> uid, Amount |-> amount, Items |-> items]

\* the zero value domain.Order{}
ZeroOrder == MkOrder("", 0, NilItems)

\* the documents used: variant A has only its key set, variant B has every
\* field set
OrderA(uid) == MkOrder(uid, 0, NilItems)
OrderB(uid) == MkOrder(uid, 1817, ItemsOf(<<9934930>>))
Orders == {OrderA(U1), OrderB(U1), OrderB(U2), OrderA(ULong)}

\* ------------------------------------------------------------------- JSON
\* a JSON value: null, a string, a number, or an array of item objects
JNull == [t |-> "null", s |-> "", n |-> 0, a |-> <<>>]
JStr(x) == [t |-> "string", s |-> x, n |-> 0, a |-> <<>>]
JNum(x) == [t |-> "number", s |-> "", n |-> x, a |-> <<>>]
JArr(x) == [t |-> "array", s |-> "", n |-> 0, a |-> x]

\* a JSON member "key": value
Member(k, v) == [key |-> k, val |-> v]

\* a byte payload: text that is not JSON, or a JSON object given as the
\* sequence of its members in wire order
NotJSON == [json |-> FALSE, obj |-> <<>>]
Object(members) == [json |-> TRUE, obj |-> members]

\* json.Marshal(order): the members in struct declaration order; a nil
\* slice is written as null
Marshal(o) ==
    Object(<< Member("order_uid", JStr(o.OrderUID)),
              Member("amount", JNum(o.Amount)),
              Member("items", IF o.Items.isNil THEN JNull ELSE JArr(o.Items.elems)) >>)

\* decoding one member into the struct: null leaves the field as it is, a
\* value of the wrong JSON type is an UnmarshalTypeError, an unknown key is
\* skipped
FieldTypeOK(m) ==
    CASE m.key = "order_uid" -> m.val.t \in {"string", "null"}
      [] m.key = "amount"    -> m.val.t \in {"number", "null"}
      [] m.key = "items"     -> m.val.t \in {"array", "null"}
      [] OTHER               -> TRUE

SetField(o, m) ==
    CASE m.val.t = "null"    -> o
      [] m.key = "order_uid" -> [o EXCEPT !.OrderUID = m.val.s]
      [] m.key = "amount"    -> [o EXCEPT !.Amount = m.val.n]
      [] m.key = "items"     -> [o EXCEPT !.Items = ItemsOf(m.val.a)]
      [] OTHER               -> o

RECURSIVE DecodeMembers(_, _)
DecodeMembers(members, o) ==
    IF members = <<>> THEN o
    ELSE DecodeMembers(Tail(members), SetField(o, Head(members)))

\* json.Unmarshal(data, &domain.Order{}): ok is FALSE when the text is not
\* JSON or a member has the wrong type; members that are absent keep their
\* zero value
Unmarshal(data) ==
    IF ~data.json THEN [ok |-> FALSE, order |-> ZeroOrder]
    ELSE IF \E i \in 1..Len(data.obj) : ~FieldTypeOK(data.obj[i])
         THEN [ok |-> FALSE, order |-> ZeroOrder]
         ELSE [ok |-> TRUE, order |-> DecodeMembers(data.obj, ZeroOrder)]

\* Value as it would be were the amount written under another name than the
\* one Scan reads
ValueRenamed(o) ==
    Object(<< Member("order_uid", JStr(o.OrderUID)),
              Member("payment_amount", JNum(o.Amount)),
              Member("items", IF o.Items.isNil THEN JNull ELSE JArr(o.Items.elems)) >>)

\* Order.Value: the driver value written to the data column
Value(o) == Marshal(o)

\* the jsonb column keeps an object's members ordered by key length and
\* then bytewise, not in the order they were written (Value writes no other
\* keys than these)
JsonbKeyOrder == <<"items", "amount", "order_uid">>

RECURSIVE MembersInOrder(_, _)
MembersInOrder(keys, members) ==
    IF keys = <<>> THEN <<>>
    ELSE LET here == SelectSeq(members, LAMBDA m : m.key = Head(keys))
         IN  (IF here = <<>> THEN <<>> ELSE << here[Len(here)] >>)
             \o MembersInOrder(Tail(keys), members)

Jsonb(data) == Object(MembersInOrder(JsonbKeyOrder, data.obj))

\* Order.Scan: the text of the data column decoded into the Order
Scan(src) == Unmarshal(src).order

\* ------------------------------------------------------------------ errors
\* the store's errors: a duplicate key ("Conflict"), no row ("NotFound"), a
\* key longer than the column ("TooLong"), and the faults of the connection
\* or of the caller's context
StoreFaults == {"Unavailable"}

\* an error value of Main and of the message callback: nil, or a message
\* wrapping a cause (fmt.Errorf with %w)
NilErr == [msg |-> "", cause |-> "nil"]
Wrap(msg, cause) == [msg |-> msg, cause |-> cause]

\* ------------------------------------------------------------------- state
VARIABLES
    table,      \* public.order: the rows [order_uid, data] in heap order
    cache,      \* the in-memory cache: key -> [value, expires]
    now,        \* the clock
    bus,        \* test_topic: the messages published and not yet delivered
    conns,      \* per HTTP connection: the request being handled
    cons,       \* the message callback: idle, or persisting a decoded order
    err,        \* Main's err variable, shared with its goroutines and the callback
    resp,       \* output: the HTTP response written by this step, if any
    handled,    \* output: the message whose callback returned in this step, if any
    pcMain,     \* where the main goroutine is
    pcSub,      \* where the subscribing goroutine is
    pcHttp,     \* where the HTTP-server goroutine is
    sig,        \* the number of signals buffered in the sig channel (capacity 1)
    subscribed, \* whether the subscription to test_topic is established
    listening,  \* whether net.Listen returned a listener
    own,        \* per goroutine of Main: the value it last assigned to err
    ret,        \* what Main returned
    first,      \* history: order_uid -> the order of the first Create that succeeded
    wins,       \* history: order_uid -> how many Creates succeeded (counted up to 2)
    tried,      \* history: the order_uids some Create reached the store with, the store answering
    filledAt    \* history: key -> when Handler.get wrote the entry the cache holds (-1: none)

vars == << table, cache, now, bus, conns, cons, err, resp, handled, pcMain, pcSub,
           pcHttp, sig, subscribed, listening, own, ret, first, wins, tried, filledAt >>

lifecycle == << pcMain, pcSub, pcHttp, sig, subscribed, listening, own, ret >>
history == << first, wins, tried, filledAt >>

\* ------------------------------------------------------------ durable store
HasRow(t, uid) == \E i \in 1..Len(t) : t[i].order_uid = uid

RowOf(t, uid) == t[CHOOSE i \in 1..Len(t) : t[i].order_uid = uid]

\* RepoCreate as it would be were order_uid no key of the table: the row is
\* always added
RepoCreateNoKey(t, order, fault) ==
    IF fault /= "nil" THEN [table |-> t, rows |-> 0, err |-> fault]
    ELSE IF Len(order.OrderUID) > MaxUidLen
         THEN [table |-> t, rows |-> 0, err |-> "TooLong"]
    ELSE [table |-> Append(t, [order_uid |-> order.OrderUID, data |-> Jsonb(Value(order))]),
          rows |-> 1, err |-> "nil"]

\* RepoCreate as it would be with ON CONFLICT (order_uid) DO UPDATE: the
\* row of a stored order_uid is replaced
RepoCreateUpsert(t, order, fault) ==
    IF fault /= "nil" THEN [table |-> t, rows |-> 0, err |-> fault]
    ELSE IF Len(order.OrderUID) > MaxUidLen
         THEN [table |-> t, rows |-> 0, err |-> "TooLong"]
    ELSE IF \E i \in 1..Len(t) : t[i].order_uid = order.OrderUID
         THEN [table |-> [i \in 1..Len(t) |->
                            IF t[i].order_uid = order.OrderUID
                            THEN [order_uid |-> order.OrderUID, data |-> Jsonb(Value(order))]
                            ELSE t[i]],
               rows |-> 1, err |-> "nil"]
    ELSE [table |-> Append(t, [order_uid |-> order.OrderUID, data |-> Jsonb(Value(order))]),
          rows |-> 1, err |-> "nil"]

\* RepoCreate as it would be were a duplicate key skipped in silence
\* (ON CONFLICT DO NOTHING)
RepoCreateSkip(t, order, fault) ==
    IF fault /= "nil" THEN [table |-> t, rows |-> 0, err |-> fault]
    ELSE IF Len(order.OrderUID) > MaxUidLen
         THEN [table |-> t, rows |-> 0, err |-> "TooLong"]
    ELSE IF \E i \in 1..Len(t) : t[i].order_uid = order.OrderUID
         THEN [table |-> t, rows |-> 0, err |-> "nil"]
    ELSE [table |-> Append(t, [order_uid |-> order.OrderUID, data |-> Jsonb(Value(order))]),
          rows |-> 1, err |-> "nil"]

\* RepoCreate as it would be were the row of a stored order_uid deleted
\* before the insert
RepoCreateReplace(t, order, fault) ==
    IF fault /= "nil" THEN [table |-> t, rows |-> 0, err |-> fault]
    ELSE IF Len(order.OrderUID) > MaxUidLen
         THEN [table |-> t, rows |-> 0, err |-> "TooLong"]
    ELSE [table |-> Append(SelectSeq(t, LAMBDA row : row.order_uid /= order.OrderUID),
                           [order_uid |-> order.OrderUID, data |-> Jsonb(Value(order))]),
          rows |-> 1, err |-> "nil"]

\* OrderRepository.Create: INSERT INTO public.order (order_uid, data); the
\* primary key rejects a second row with the same order_uid
RepoCreate(t, order, fault) ==
    IF fault /= "nil" THEN [table |-> t, rows |-> 0, err |-> fault]
    ELSE IF Len(order.OrderUID) > MaxUidLen
         THEN [table |-> t, rows |-> 0, err |-> "TooLong"]
    ELSE IF HasRow(t, order.OrderUID)
         THEN [table |-> t, rows |-> 0, err |-> "Conflict"]
    ELSE [table |-> Append(t, [order_uid |-> order.OrderUID, data |-> Jsonb(Value(order))]),
          rows |-> 1, err |-> "nil"]

\* RepoGet as it would be were sql.ErrNoRows dropped: no row gives the zero
\* Order and no error
RepoGetNoRows(t, id, fault) ==
    IF fault /= "nil" THEN [order |-> ZeroOrder, err |-> fault]
    ELSE IF ~HasRow(t, id) THEN [order |-> ZeroOrder, err |-> "nil"]
    ELSE [order |-> Scan(RowOf(t, id).data), err |-> "nil"]

\* OrderRepository.Get: SELECT data FROM public.order WHERE order_uid=$1
RepoGet(t, id, fault) ==
    IF fault /= "nil" THEN [order |-> ZeroOrder, err |-> fault]
    ELSE IF ~HasRow(t, id) THEN [order |-> ZeroOrder, err |-> "NotFound"]
    ELSE [order |-> Scan(RowOf(t, id).data), err |-> "nil"]

\* RepoList as it would be with LIMIT 1 in the query
RepoListLimit(t, fault) ==
    IF fault /= "nil" THEN [orders |-> <<>>, err |-> fault]
    ELSE [orders |-> [i \in 1..(IF Len(t) > 1 THEN 1 ELSE Len(t)) |-> Scan(t[i].data)],
          err |-> "nil"]

\* OrderRepository.List: SELECT data FROM public.order, every row scanned
RepoList(t, fault) ==
    IF fault /= "nil" THEN [orders |-> <<>>, err |-> fault]
    ELSE [orders |-> [i \in 1..Len(t) |-> Scan(t[i].data)], err |-> "nil"]

\* -------------------------------------------------------------------- cache
\* Cache.Has: the key is present and its entry has not expired
CacheHas(c, key, t) == key \in DOMAIN c /\ t < c[key].expires

\* Cache.Get: the value and true under the same condition, else the zero
\* value and false
CacheGet(c, key, t) ==
    IF CacheHas(c, key, t) THEN [value |-> c[key].value, found |-> TRUE]
    ELSE [value |-> ZeroOrder, found |-> FALSE]

\* Cache.Set: value and expiration now + ttl, replacing any entry of the key
CacheSet(c, key, value, ttl, t) ==
    [k \in DOMAIN c \cup {key} |->
        IF k = key THEN [value |-> value, expires |-> t + ttl] ELSE c[k]]

\* ------------------------------------------------------------------ inputs
\* byte payloads: text that is not JSON; an object whose order_uid has the
\* wrong type; objects as json.Marshal writes them; an object with every
\* field, the members in another order than the struct's and an unknown
\* member among them; an object with only the key
WrongType == Object(<< Member("order_uid", JNum(5)) >>)
Shuffled(o) ==
    Object(<< Member("items", JArr(o.Items.elems)), Member("comment", JStr("x")),
              Member("amount", JNum(o.Amount)), Member("order_uid", JStr(o.OrderUID)) >>)
KeyOnly(uid) == Object(<< Member("order_uid", JStr(uid)) >>)

\* the bodies posted to /api/v1/create
Bodies ==
    {NotJSON, WrongType, Marshal(OrderA(U1)), Marshal(OrderB(U1)), Shuffled(OrderB(U2)),
     KeyOnly(ULong)}

\* the bodies posted to /api/v1/publish, and to /api/v1/create where the
\* callback and the clock run beside the requests
FewBodies == {NotJSON, KeyOnly(U1), Shuffled(OrderB(U2))}

\* the messages other publishers put on test_topic
Messages == {NotJSON, WrongType, Marshal(OrderB(U1))}

\* the ids requested from /api/v1/get/:id (the router matches no empty id)
GetIds == {U1, U2}

\* ------------------------------------------------------------- connections
\* a connection's handler: op and pc say where it is, key and order are its
\* locals; fetches (the repo.Get calls made) and warm (the cache was written
\* for the key less than an hour before the request came) are history
Idle ==
    [op |-> "none", pc |-> "idle", key |-> "", order |-> ZeroOrder, fetches |-> 0,
     warm |-> FALSE]

Doing(op, pc, key, order) == [Idle EXCEPT !.op = op, !.pc = pc, !.key = key, !.order = order]

\* no response is written in this step; in a response, had (the order_uid
\* had been created before), rival (another Create of the order_uid was in
\* flight) and fault (what the store's connection did) are history
NoResp ==
    [op |-> "none", key |-> "", order |-> ZeroOrder, err |-> "nil",
     body |-> "none", rows |-> 0, orders |-> <<>>, found |-> FALSE, fetches |-> 0,
     warm |-> FALSE, had |-> FALSE, rival |-> FALSE, fault |-> "nil"]

\* a handler in state me returns error e
Failed(me, e) ==
    [NoResp EXCEPT !.op = me.op, !.key = me.key, !.order = me.order,
                   !.err = e, !.body = "error", !.fetches = me.fetches, !.warm = me.warm]

\* a handler in state me writes a JSON body
Replied(me, body) ==
    [NoResp EXCEPT !.op = me.op, !.key = me.key, !.order = me.order,
                   !.body = body, !.fetches = me.fetches, !.warm = me.warm]

\* no callback returns in this step
NoEvent ==
    [fin |-> FALSE, decoded |-> FALSE, data |-> NotJSON, order |-> ZeroOrder,
     err |-> NilErr, creates |-> 0, logged |-> FALSE, had |-> FALSE, rival |-> FALSE,
     fault |-> "nil"]

Quiet == resp' = NoResp /\ handled' = NoEvent

Free(c) == conns[c].pc = "idle"

\* the HTTP server accepts requests while app.Listener runs and Main has not returned
Serving == pcHttp = "serving" /\ pcMain /= "returned"

\* the callback runs while the subscription stands and Main has not returned
Consuming == subscribed /\ pcMain /= "returned"

\* ----------------------------------------------------------------- history
\* another Create for the same order_uid is in flight
\* (c is the connection asking, 0 for the callback)
Rival(c, uid) ==
    \/ \E d \in Conns \ {c} : conns[d].pc = "repoCreate" /\ conns[d].order.OrderUID = uid
    \/ c /= 0 /\ cons.pc = "persisting" /\ cons.request.OrderUID = uid

\* the history of Creates after one that reached the store with result r
Record(order, r) ==
    /\ first' = IF r.err = "nil" /\ order.OrderUID \notin DOMAIN first
                THEN [k \in DOMAIN first \cup {order.OrderUID} |->
                         IF k = order.OrderUID THEN order ELSE first[k]]
                ELSE first
    /\ wins' = IF r.err = "nil"
               THEN [wins EXCEPT ![order.OrderUID] = IF @ < 2 THEN @ + 1 ELSE @]
               ELSE wins
    /\ tried' = IF r.err \in {"nil", "Conflict"} THEN tried \cup {order.OrderUID} ELSE tried

\* --------------------------------------------------------- Handler.create
\* ctx.BodyParser(request)
BodyParser(body) == Unmarshal(body)

CreateParse(c, body) ==
    /\ Serving /\ Free(c)
    /\ LET d == BodyParser(body)
       IN  IF d.ok
           THEN /\ conns' = [conns EXCEPT ![c] = Doing("create", "repoCreate", "", d.order)]
                /\ Quiet
           ELSE /\ conns' = conns
                /\ resp' = Failed(Doing("create", "idle", "", ZeroOrder), "Decode")
                /\ handled' = NoEvent
    /\ UNCHANGED << table, cache, now, bus, cons, err, lifecycle, history >>

CreateStore(c) ==
    /\ Serving /\ conns[c].pc = "repoCreate"
    /\ \E fault \in {"nil"} \cup StoreFaults :
          LET me == conns[c]
              r == RepoCreate(table, me.order, fault)
              out == IF r.err = "nil" THEN Replied(me, "rows_affected")
                     ELSE Failed(me, r.err)
          IN  /\ table' = r.table
              /\ resp' = [out EXCEPT !.rows = r.rows, !.fault = fault,
                                     !.had = me.order.OrderUID \in DOMAIN first,
                                     !.rival = Rival(c, me.order.OrderUID)]
              /\ Record(me.order, r)
    /\ conns' = [conns EXCEPT ![c] = Idle]
    /\ handled' = NoEvent
    /\ UNCHANGED << cache, now, bus, cons, err, lifecycle, filledAt >>

\* ------------------------------------------------------------ Handler.get
\* GetHas as it would be were an entry taken for present whenever the cache
\* holds its key, expired or not
GetHasNoExpiry(c, id) ==
    /\ Serving /\ Free(c)
    /\ IF id = ""
       THEN /\ conns' = conns
            /\ resp' = Replied(Doing("get", "idle", id, ZeroOrder), "empty key")
            /\ handled' = NoEvent
       ELSE /\ conns' = [conns EXCEPT ![c] =
                  [Doing("get", IF id \in DOMAIN cache THEN "cacheGet" ELSE "repoGet",
                         id, ZeroOrder)
                   EXCEPT !.warm = filledAt[id] >= 0 /\ now < filledAt[id] + Hour]]
            /\ Quiet
    /\ UNCHANGED << table, cache, now, bus, cons, err, lifecycle, history >>

\* lines 113-122: the id taken from the route and cache.Has
GetHas(c, id) ==
    /\ Serving /\ Free(c)
    /\ IF id = ""
       THEN /\ conns' = conns
            /\ resp' = Replied(Doing("get", "idle", id, ZeroOrder), "empty key")
            /\ handled' = NoEvent
       ELSE /\ conns' = [conns EXCEPT ![c] =
                  [Doing("get", IF CacheHas(cache, id, now) THEN "cacheGet" ELSE "repoGet",
                         id, ZeroOrder)
                   EXCEPT !.warm = filledAt[id] >= 0 /\ now < filledAt[id] + Hour]]
            /\ Quiet
    /\ UNCHANGED << table, cache, now, bus, cons, err, lifecycle, history >>

\* lines 123-126: cache.Get, its found flag and error dropped, and the reply
GetCached(c) ==
    /\ Serving /\ conns[c].pc = "cacheGet"
    /\ LET r == CacheGet(cache, conns[c].key, now)
       IN  resp' = [Replied([conns[c] EXCEPT !.order = r.value], "order")
                    EXCEPT !.found = r.found]
    /\ conns' = [conns EXCEPT ![c] = Idle]
    /\ handled' = NoEvent
    /\ UNCHANGED << table, cache, now, bus, cons, err, lifecycle, history >>

\* GetStore as it would be were a missing row answered with the zero Order
\* and cached like a found one
GetStoreNegative(c) ==
    /\ Serving /\ conns[c].pc = "repoGet"
    /\ \E fault \in {"nil"} \cup StoreFaults :
          LET r == RepoGet(table, conns[c].key, fault)
              me == [conns[c] EXCEPT !.fetches = @ + 1]
          IN  IF r.err \notin {"nil", "NotFound"}
              THEN /\ conns' = [conns EXCEPT ![c] = Idle]
                   /\ resp' = [Failed(me, r.err) EXCEPT !.fault = fault]
                   /\ handled' = NoEvent
              ELSE /\ conns' = [conns EXCEPT ![c] = [me EXCEPT !.pc = "cacheSet",
                                                               !.order = r.order]]
                   /\ Quiet
    /\ UNCHANGED << table, cache, now, bus, cons, err, lifecycle, history >>

\* lines 130-133: repo.Get and the return of its error
GetStore(c) ==
    /\ Serving /\ conns[c].pc = "repoGet"
    /\ \E fault \in {"nil"} \cup StoreFaults :
          LET r == RepoGet(table, conns[c].key, fault)
              me == [conns[c] EXCEPT !.fetches = @ + 1]
          IN  IF r.err /= "nil"
              THEN /\ conns' = [conns EXCEPT ![c] = Idle]
                   /\ resp' = [Failed(me, r.err) EXCEPT !.fault = fault]
                   /\ handled' = NoEvent
              ELSE /\ conns' = [conns EXCEPT ![c] = [me EXCEPT !.pc = "cacheSet",
                                                               !.order = r.order]]
                   /\ Quiet
    /\ UNCHANGED << table, cache, now, bus, cons, err, lifecycle, history >>

\* GetFill as it would be with a ttl of zero passed to cache.Set
GetFillNoTTL(c) ==
    /\ Serving /\ conns[c].pc = "cacheSet"
    /\ \E stored \in BOOLEAN :
          /\ cache' = IF stored
                      THEN CacheSet(cache, conns[c].key, conns[c].order, 0, now)
                      ELSE cache
          /\ filledAt' = IF stored THEN [filledAt EXCEPT ![conns[c].key] = now] ELSE filledAt
    /\ resp' = Replied(conns[c], "order")
    /\ conns' = [conns EXCEPT ![c] = Idle]
    /\ handled' = NoEvent
    /\ UNCHANGED << table, now, bus, cons, err, lifecycle, first, wins, tried >>

\* GetFill as it would be were the error of cache.Set returned
GetFillStrict(c) ==
    /\ Serving /\ conns[c].pc = "cacheSet"
    /\ \E stored \in BOOLEAN :
          /\ cache' = IF stored
                      THEN CacheSet(cache, conns[c].key, conns[c].order, Hour, now)
                      ELSE cache
          /\ filledAt' = IF stored THEN [filledAt EXCEPT ![conns[c].key] = now] ELSE filledAt
          /\ resp' = IF stored THEN Replied(conns[c], "order") ELSE Failed(conns[c], "CacheSet")
    /\ conns' = [conns EXCEPT ![c] = Idle]
    /\ handled' = NoEvent
    /\ UNCHANGED << table, now, bus, cons, err, lifecycle, first, wins, tried >>

\* lines 135-141: cache.Set for one hour, its error dropped, and the reply
GetFill(c) ==
    /\ Serving /\ conns[c].pc = "cacheSet"
    /\ \E stored \in BOOLEAN :
          /\ cache' = IF stored
                      THEN CacheSet(cache, conns[c].key, conns[c].order, Hour, now)
                      ELSE cache
          /\ filledAt' = IF stored THEN [filledAt EXCEPT ![conns[c].key] = now] ELSE filledAt
    /\ resp' = Replied(conns[c], "order")
    /\ conns' = [conns EXCEPT ![c] = Idle]
    /\ handled' = NoEvent
    /\ UNCHANGED << table, now, bus, cons, err, lifecycle, first, wins, tried >>

\* ------------------------------------------- Handler.list, Handler.listJSON
\* (the two differ in how they render the orders)
List(c) ==
    /\ Serving /\ Free(c)
    /\ \E fault \in {"nil"} \cup StoreFaults :
          LET r == RepoList(table, fault)
              me == Doing("list", "idle", "", ZeroOrder)
          IN  resp' = IF r.err /= "nil" THEN Failed(me, r.err)
                      ELSE [Replied(me, "orders") EXCEPT !.orders = r.orders]
    /\ handled' = NoEvent
    /\ UNCHANGED << table, cache, now, bus, conns, cons, err, lifecycle, history >>

\* -------------------------------------------------------- Handler.publish
\* Publish as it would be were the order also inserted by the handler
PublishStores(c, body) ==
    /\ Serving /\ Free(c)
    /\ LET d == BodyParser(body)
           me == Doing("publish", "idle", "", d.order)
       IN  IF ~d.ok
           THEN /\ resp' = Failed(me, "Decode")
                /\ bus' = bus
                /\ table' = table
           ELSE \E sent \in BOOLEAN :
                   /\ sent => Len(bus) < MaxBus
                   /\ bus' = IF sent THEN Append(bus, Marshal(d.order)) ELSE bus
                   /\ table' = IF sent THEN RepoCreate(table, d.order, "nil").table ELSE table
                   /\ resp' = IF sent THEN Replied(me, "published")
                              ELSE Failed(me, "Unavailable")
    /\ handled' = NoEvent
    /\ UNCHANGED << cache, now, conns, cons, err, lifecycle, history >>

Publish(c, body) ==
    /\ Serving /\ Free(c)
    /\ LET d == BodyParser(body)
           me == Doing("publish", "idle", "", d.order)
       IN  IF ~d.ok
           THEN /\ resp' = Failed(me, "Decode")
                /\ bus' = bus
           ELSE \E sent \in BOOLEAN :
                   /\ sent => Len(bus) < MaxBus
                   /\ bus' = IF sent THEN Append(bus, Marshal(d.order)) ELSE bus
                   /\ resp' = IF sent THEN Replied(me, "published")
                              ELSE Failed(me, "Unavailable")
    /\ handled' = NoEvent
    /\ UNCHANGED << table, cache, now, conns, cons, err, lifecycle, history >>

\* --------------------------------------------------- ingestion (handleEvent)
\* a publisher outside the process puts a message on test_topic
Arrive(data) ==
    /\ Len(bus) < MaxBus
    /\ bus' = Append(bus, data)
    /\ Quiet
    /\ UNCHANGED << table, cache, now, conns, cons, err, lifecycle, history >>

\* HandleDecode as it would be were the decoder's error dropped
HandleDecodeLenient(data) == [ok |-> TRUE, order |-> Unmarshal(data).order]

\* handleEvent up to repo.Create: the payload decoded into a fresh Order
HandleDecode(data) == Unmarshal(data)

ConsIdle == [pc |-> "idle", request |-> ZeroOrder]

\* the callback's err = handleEvent(...); if err != nil { log.Println(err) };
\* ev describes the message handled
Callback(ev, e) ==
    /\ err' = e
    /\ cons' = ConsIdle
    /\ handled' = [ev EXCEPT !.fin = TRUE, !.err = e, !.logged = e /= NilErr]
    /\ resp' = NoResp

\* the subscription hands the next message to the callback
Deliver ==
    /\ Consuming /\ cons.pc = "idle" /\ bus /= <<>>
    /\ bus' = Tail(bus)
    /\ LET d == HandleDecode(Head(bus))
       IN  IF d.ok
           THEN /\ cons' = [pc |-> "persisting", request |-> d.order]
                /\ err' = err
                /\ Quiet
           ELSE Callback([NoEvent EXCEPT !.data = Head(bus)],
                         Wrap("failed to unmarshal input json", "Decode"))
    /\ UNCHANGED << table, cache, now, conns, lifecycle, history >>

\* Persist as it would be were the callback to put the order it stored in
\* the cache
PersistWarm ==
    /\ Consuming /\ cons.pc = "persisting"
    /\ \E fault \in {"nil"} \cup StoreFaults :
          LET r == RepoCreate(table, cons.request, fault)
          IN  /\ table' = r.table
              /\ Callback([NoEvent EXCEPT !.decoded = TRUE, !.order = cons.request,
                                          !.creates = 1, !.fault = fault,
                                          !.had = cons.request.OrderUID \in DOMAIN first,
                                          !.rival = Rival(0, cons.request.OrderUID)],
                          IF r.err = "nil" THEN NilErr
                          ELSE Wrap("failed to save data to database", r.err))
              /\ Record(cons.request, r)
              /\ cache' = IF r.err = "nil"
                          THEN CacheSet(cache, cons.request.OrderUID, cons.request, Hour, now)
                          ELSE cache
    /\ UNCHANGED << now, bus, conns, lifecycle, filledAt >>

\* Persist as it would be were a message whose Create failed put back on
\* the topic
PersistRetry ==
    /\ Consuming /\ cons.pc = "persisting"
    /\ \E fault \in {"nil"} \cup StoreFaults :
          LET r == RepoCreate(table, cons.request, fault)
          IN  /\ table' = r.table
              /\ Callback([NoEvent EXCEPT !.decoded = TRUE, !.order = cons.request,
                                          !.creates = 1, !.fault = fault,
                                          !.had = cons.request.OrderUID \in DOMAIN first,
                                          !.rival = Rival(0, cons.request.OrderUID)],
                          IF r.err = "nil" THEN NilErr
                          ELSE Wrap("failed to save data to database", r.err))
              /\ Record(cons.request, r)
              /\ bus' = IF r.err /= "nil" /\ Len(bus) < MaxBus
                        THEN Append(bus, Marshal(cons.request))
                        ELSE bus
    /\ UNCHANGED << cache, now, conns, lifecycle, filledAt >>

\* handleEvent from repo.Create to its return
Persist ==
    /\ Consuming /\ cons.pc = "persisting"
    /\ \E fault \in {"nil"} \cup StoreFaults :
          LET r == RepoCreate(table, cons.request, fault)
          IN  /\ table' = r.table
              /\ Callback([NoEvent EXCEPT !.decoded = TRUE, !.order = cons.request,
                                          !.creates = 1, !.fault = fault,
                                          !.had = cons.request.OrderUID \in DOMAIN first,
                                          !.rival = Rival(0, cons.request.OrderUID)],
                          IF r.err = "nil" THEN NilErr
                          ELSE Wrap("failed to save data to database", r.err))
              /\ Record(cons.request, r)
    /\ UNCHANGED << cache, now, bus, conns, lifecycle, filledAt >>

\* --------------------------------------------------------------- the clock
Tick ==
    /\ now < MaxTime
    /\ now' = now + 1
    /\ Quiet
    /\ UNCHANGED << table, cache, bus, conns, cons, err, lifecycle, history >>

\* the cache may drop an entry once it has expired
Sweep(k) ==
    /\ k \in DOMAIN cache /\ now >= cache[k].expires
    /\ cache' = [j \in DOMAIN cache \ {k} |-> cache[j]]
    /\ filledAt' = [filledAt EXCEPT ![k] = -1]
    /\ Quiet
    /\ UNCHANGED << table, now, bus, conns, cons, err, lifecycle, first, wins, tried >>

\* ------------------------------------------------------- the serving system
\* Main has subscribed, opened the listener and started the server, and
\* waits on sig
Init ==
    /\ table = <<>>
    /\ cache = << >>
    /\ now = 0
    /\ bus = <<>>
    /\ conns = [c \in Conns |-> Idle]
    /\ cons = ConsIdle
    /\ err = NilErr
    /\ resp = NoResp
    /\ handled = NoEvent
    /\ pcMain = "wait" /\ pcSub = "done" /\ pcHttp = "serving"
    /\ sig = 0
    /\ subscribed = TRUE
    /\ listening = TRUE
    /\ own = [g \in {"main", "sub", "http"} |-> NilErr]
    /\ ret = NilErr
    /\ first = << >>
    /\ wins = [u \in UIDS |-> 0]
    /\ tried = {}
    /\ filledAt = [k \in GetIds |-> -1]

\* the whole system with its HTTP requests handled one at a time (the reads
\* asking for one id), the callback and the clock running beside them
Next ==
    \/ \E body \in FewBodies : CreateParse(1, body)
    \/ CreateStore(1)
    \/ GetHas(1, U1)
    \/ GetCached(1)
    \/ GetStore(1)
    \/ GetFill(1)
    \/ List(1)
    \/ \E body \in FewBodies : Publish(1, body)
    \/ \E data \in Messages : Arrive(data)
    \/ Deliver
    \/ Persist
    \/ Tick
    \/ \E k \in GetIds : Sweep(k)

Spec == Init /\ [][Next]_vars

\* concurrent requests that read and create, no message traffic
ReadNext ==
    \/ \E c \in Conns, body \in Bodies : CreateParse(c, body)
    \/ \E c \in Conns : CreateStore(c)
    \/ \E c \in Conns, id \in GetIds : GetHas(c, id)
    \/ \E c \in Conns : GetCached(c)
    \/ \E c \in Conns : GetStore(c)
    \/ \E c \in Conns : GetFill(c)
    \/ Tick
    \/ \E k \in GetIds : Sweep(k)

ReadSpec == Init /\ [][ReadNext]_vars

\* concurrent requests that create, list and publish, and the callback
WriteNext ==
    \/ \E c \in Conns, body \in Bodies : CreateParse(c, body)
    \/ \E c \in Conns : CreateStore(c)
    \/ \E c \in Conns : List(c)
    \/ \E c \in Conns, body \in FewBodies : Publish(c, body)
    \/ \E data \in Messages : Arrive(data)
    \/ Deliver
    \/ Persist

WriteSpec == Init /\ [][WriteNext]_vars

\* the messages put on test_topic beside concurrent reads: two orders under
\* one order_uid
Ingested == {Marshal(OrderA(U1)), Marshal(OrderB(U1))}

\* concurrent reads beside the callback and the clock, no other requests
IngestNext ==
    \/ \E c \in Conns, id \in GetIds : GetHas(c, id)
    \/ \E c \in Conns : GetCached(c)
    \/ \E c \in Conns : GetStore(c)
    \/ \E c \in Conns : GetFill(c)
    \/ \E data \in Ingested : Arrive(data)
    \/ Deliver
    \/ Persist
    \/ Tick
    \/ \E k \in GetIds : Sweep(k)

IngestSpec == Init /\ [][IngestNext]_vars

\* ------------------------------------------------------------------ Main
\* the errors of Subscribe, net.Listen and app.Listener
SubErr == Wrap("nats: subscribe", "Unavailable")
ListenErr == Wrap("listen tcp4", "Unavailable")
ServeErr == Wrap("accept tcp4", "Unavailable")

Alive == pcMain /= "returned"

\* what a goroutine reads from err after assigning it, other goroutines
\* assigning it with no synchronisation: its own value or the one now there
Reads(g) == {own[g], err}

\* line 95: err = natsClient.Subscribe("test_topic", callback)
Subscribe ==
    /\ Alive /\ pcSub = "subscribe"
    /\ \E e \in {NilErr, SubErr} :
          /\ err' = e
          /\ own' = [own EXCEPT !["sub"] = e]
          /\ subscribed' = (e = NilErr)
    /\ pcSub' = "check"
    /\ Quiet
    /\ UNCHANGED << table, cache, now, bus, conns, cons, pcMain, pcHttp, sig, listening, ret,
                    history >>

\* line 100: if err != nil
SubCheck ==
    /\ Alive /\ pcSub = "check"
    /\ \E seen \in Reads("sub") : pcSub' = IF seen /= NilErr THEN "send" ELSE "done"
    /\ Quiet
    /\ UNCHANGED << table, cache, now, bus, conns, cons, err, pcMain, pcHttp, sig, subscribed,
                    listening, own, ret, history >>

\* line 105: sig <- syscall.SIGINT, blocking while the buffer is full
SubSend ==
    /\ Alive /\ pcSub = "send" /\ sig < 1
    /\ sig' = sig + 1
    /\ pcSub' = "done"
    /\ Quiet
    /\ UNCHANGED << table, cache, now, bus, conns, cons, err, pcMain, pcHttp, subscribed,
                    listening, own, ret, history >>

\* line 110: ln, err := net.Listen(...)
Listen ==
    /\ pcMain = "listen"
    /\ \E e \in {NilErr, ListenErr} :
          /\ err' = e
          /\ own' = [own EXCEPT !["main"] = e]
          /\ listening' = (e = NilErr)
    /\ pcMain' = "check"
    /\ Quiet
    /\ UNCHANGED << table, cache, now, bus, conns, cons, pcSub, pcHttp, sig, subscribed, ret,
                    history >>

\* lines 111-116: if err != nil, return it wrapped; else start the server's
\* goroutine and go on to wait
ListenCheck ==
    /\ pcMain = "check"
    /\ \E seen \in Reads("main") :
          IF seen /= NilErr
          THEN /\ pcMain' = "returned"
               /\ \E wrapped \in Reads("main") :
                     ret' = Wrap("failed to get http listener", wrapped.cause)
               /\ pcHttp' = pcHttp
          ELSE /\ pcMain' = "wait"
               /\ pcHttp' = "start"
               /\ ret' = ret
    /\ Quiet
    /\ UNCHANGED << table, cache, now, bus, conns, cons, err, pcSub, sig, subscribed,
                    listening, own, history >>

\* lines 117-126: the handler built and app.Listener(ln) entered; without a
\* listener it returns at once
Serve ==
    /\ Alive /\ pcHttp = "start"
    /\ IF listening
       THEN /\ pcHttp' = "serving"
            /\ UNCHANGED << err, own >>
       ELSE /\ pcHttp' = "check"
            /\ err' = ServeErr
            /\ own' = [own EXCEPT !["http"] = ServeErr]
    /\ Quiet
    /\ UNCHANGED << table, cache, now, bus, conns, cons, pcMain, pcSub, sig, subscribed,
                    listening, ret, history >>

\* line 126: app.Listener returns an error while serving
ServeFail ==
    /\ Alive /\ pcHttp = "serving"
    /\ \A c \in Conns : conns[c].pc = "idle"
    /\ pcHttp' = "check"
    /\ err' = ServeErr
    /\ own' = [own EXCEPT !["http"] = ServeErr]
    /\ Quiet
    /\ UNCHANGED << table, cache, now, bus, conns, cons, pcMain, pcSub, sig, subscribed,
                    listening, ret, history >>

\* line 126: if err != nil
ServeCheck ==
    /\ Alive /\ pcHttp = "check"
    /\ \E seen \in Reads("http") : pcHttp' = IF seen /= NilErr THEN "send" ELSE "done"
    /\ Quiet
    /\ UNCHANGED << table, cache, now, bus, conns, cons, err, pcMain, pcSub, sig, subscribed,
                    listening, own, ret, history >>

\* line 128: sig <- syscall.SIGINT
ServeSend ==
    /\ Alive /\ pcHttp = "send" /\ sig < 1
    /\ sig' = sig + 1
    /\ pcHttp' = "done"
    /\ Quiet
    /\ UNCHANGED << table, cache, now, bus, conns, cons, err, pcMain, pcSub, subscribed,
                    listening, own, ret, history >>

\* signal.Notify: an interrupt or SIGTERM from outside is put in sig unless
\* the buffer is full
Interrupt ==
    /\ Alive /\ sig < 1
    /\ sig' = sig + 1
    /\ Quiet
    /\ UNCHANGED << table, cache, now, bus, conns, cons, err, pcMain, pcSub, pcHttp,
                    subscribed, listening, own, ret, history >>

\* lines 135-137: <-sig; return nil
Receive ==
    /\ pcMain = "wait" /\ sig > 0
    /\ sig' = sig - 1
    /\ pcMain' = "returned"
    /\ ret' = NilErr
    /\ Quiet
    /\ UNCHANGED << table, cache, now, bus, conns, cons, err, pcSub, pcHttp, subscribed,
                    listening, own, history >>

\* Main from the creation of sig (line 89): the subscribing goroutine is
\* started, the main goroutine is about to open the listener
MainInit ==
    /\ table = <<>>
    /\ cache = << >>
    /\ now = 0
    /\ bus = <<>>
    /\ conns = [c \in Conns |-> Idle]
    /\ cons = ConsIdle
    /\ err = NilErr
    /\ resp = NoResp
    /\ handled = NoEvent
    /\ pcMain = "listen" /\ pcSub = "subscribe" /\ pcHttp = "off"
    /\ sig = 0
    /\ subscribed = FALSE
    /\ listening = FALSE
    /\ own = [g \in {"main", "sub", "http"} |-> NilErr]
    /\ ret = NilErr
    /\ first = << >>
    /\ wins = [u \in UIDS |-> 0]
    /\ tried = {}
    /\ filledAt = [k \in GetIds |-> -1]

\* the goroutines of Main, the callback and the messages of other publishers
MainNext ==
    \/ Subscribe
    \/ SubCheck
    \/ SubSend
    \/ Listen
    \/ ListenCheck
    \/ Serve
    \/ ServeFail
    \/ ServeCheck
    \/ ServeSend
    \/ Interrupt
    \/ Receive
    \/ \E data \in Messages : Arrive(data)
    \/ Deliver
    \/ Persist

MainSpec == MainInit /\ [][MainNext]_vars

\* the scheduler runs every goroutine that can take a step; nothing makes a
\* signal come from outside, the server fail or a message arrive
MainFair ==
    /\ WF_vars(Subscribe) /\ WF_vars(SubCheck) /\ WF_vars(SubSend)
    /\ WF_vars(Listen) /\ WF_vars(ListenCheck) /\ WF_vars(Receive)
    /\ WF_vars(Serve) /\ WF_vars(ServeCheck) /\ WF_vars(ServeSend)
    /\ WF_vars(Deliver) /\ WF_vars(Persist)

MainFairSpec == MainSpec /\ MainFair

\* ================================================================== claims
\* what a Create that reached the store answered, in a response or in the
\* callback's event: uid, had, err (by its cause), rows where reported
StoreAnswered(r) == r.fault = "nil"

\* C1: the store holds at most one row per order_uid, and the row is the
\* document of the first Create that succeeded; a Create of an order_uid
\* already created answers Conflict with 0 rows; a Create of an order_uid
\* not yet created (one that fits the key column, the store reachable)
\* succeeds with 1 row; no failed Create reports a row.
C1_UniqueKeyNoOverwrite ==
    /\ \A i, j \in 1..Len(table) : table[i].order_uid = table[j].order_uid => i = j
    /\ \A i \in 1..Len(table) :
          /\ table[i].order_uid \in DOMAIN first
          /\ Scan(table[i].data) = first[table[i].order_uid]
    /\ (resp.op = "create" /\ resp.err /= "Decode") =>
          /\ (resp.had /\ StoreAnswered(resp)) => (resp.err = "Conflict" /\ resp.rows = 0)
          /\ (~resp.had /\ StoreAnswered(resp) /\ Len(resp.order.OrderUID) <= MaxUidLen)
                => (resp.err = "nil" /\ resp.rows = 1 /\ resp.body = "rows_affected")
          /\ resp.err /= "nil" => resp.rows = 0
    /\ (handled.fin /\ handled.decoded) =>
          /\ (handled.had /\ StoreAnswered(handled)) => handled.err.cause = "Conflict"
          /\ (~handled.had /\ StoreAnswered(handled)) => handled.err = NilErr

\* a Create of a stored order_uid with another document was refused
C1_Witness ==
    /\ resp.op = "create" /\ resp.err = "Conflict" /\ resp.had
    /\ first[resp.order.OrderUID] /= resp.order
    /\ \E i \in 1..Len(table) : Scan(table[i].data) = first[resp.order.OrderUID]

\* C2: of the Creates of one order_uid, from HTTP requests and from the
\* callback in any interleaving, at most one succeeds, exactly one once the
\* store has answered any of them, and each of the others the store
\* answers gets Conflict.
C2_OneWinner ==
    /\ \A u \in UIDS : wins[u] <= 1
    /\ \A u \in tried : wins[u] = 1
    /\ (resp.op = "create" /\ resp.err /= "Decode" /\ StoreAnswered(resp)
          /\ Len(resp.order.OrderUID) <= MaxUidLen)
          => IF resp.had THEN resp.err = "Conflict" ELSE resp.err = "nil"
    /\ (handled.fin /\ handled.decoded /\ StoreAnswered(handled))
          => IF handled.had THEN handled.err.cause = "Conflict" ELSE handled.err = NilErr

\* three Creates of one order_uid were in flight together: one request won,
\* this one lost, the callback's is still to come
C2_Witness ==
    /\ resp.op = "create" /\ resp.rival /\ resp.err = "Conflict"
    /\ wins[resp.order.OrderUID] = 1
    /\ cons.pc = "persisting" /\ cons.request.OrderUID = resp.order.OrderUID
    /\ \E c \in Conns : conns[c].pc = "idle"

\* C3: a get of an id never created answers the store's error NotFound and
\* no order; a fault of the store during the fetch is answered as it is.
C3_UnknownIdNotFound ==
    resp.op = "get" =>
        /\ resp.key \notin DOMAIN first =>
              /\ resp.body = "error" /\ resp.order = ZeroOrder
              /\ resp.err = IF resp.fault = "nil" THEN "NotFound" ELSE resp.fault
        /\ resp.fault /= "nil" => (resp.body = "error" /\ resp.err = resp.fault)

\* an id never created was asked for while another order_uid is stored
C3_Witness ==
    /\ resp.op = "get" /\ resp.err = "NotFound" /\ resp.key \notin DOMAIN first
    /\ table /= <<>>

\* C4: a get answers from the cache only when cache.Get found the entry,
\* so the order of a get is the stored document, never the zero Order.
C4_CachedOnlyIfFound ==
    (resp.op = "get" /\ resp.body = "order") =>
        /\ resp.fetches = 0 => resp.found
        /\ resp.order /= ZeroOrder
        /\ resp.key \in DOMAIN first /\ resp.order = first[resp.key]

\* C5: a get that comes less than an hour after the cache was written for
\* its id calls repo.Get zero times; any other get calls it exactly once.
C5_CacheAside ==
    resp.op = "get" =>
        /\ resp.warm => resp.fetches = 0
        /\ ~resp.warm => resp.fetches = 1

\* the second get of an id within the hour, answered from the cache
C5_Witness ==
    /\ resp.op = "get" /\ resp.warm /\ resp.fetches = 0 /\ resp.body = "order"
    /\ resp.order = first[resp.key]
    /\ filledAt[resp.key] = now

\* C8: the order repo.Get returns for an order_uid is field for field the
\* order its Create was given, and every row of the table scans to it.
C8_RoundTrip ==
    /\ (resp.op = "get" /\ resp.body = "order" /\ resp.fetches = 1) =>
          (resp.key \in DOMAIN first /\ resp.order = first[resp.key])
    /\ \A i \in 1..Len(table) :
          /\ Scan(table[i].data).OrderUID = table[i].order_uid
          /\ Scan(table[i].data) = first[table[i].order_uid]

\* the order with every field set, posted with its members shuffled, came
\* back from the store
C8_Witness ==
    /\ resp.op = "get" /\ resp.body = "order" /\ resp.fetches = 1
    /\ resp.order = OrderB(U2)
    /\ \E i \in 1..Len(table) : table[i].data /= Shuffled(OrderB(U2))

\* a payload json.Unmarshal must refuse: no JSON, or a member of a type the
\* Order schema does not allow
Malformed(data) == data \in {NotJSON, WrongType}

C9_CacheWrittenOnlyByGet ==
    [][cache' /= cache
        => \/ \E c \in Conns :
                /\ conns[c].op = "get" /\ conns[c].pc = "cacheSet" /\ conns'[c].pc = "idle"
                /\ conns[c].fetches = 1
                /\ conns[c].key \in DOMAIN first /\ conns[c].order = first[conns[c].key]
                /\ DOMAIN cache' = DOMAIN cache \cup {conns[c].key}
                /\ cache'[conns[c].key].value = conns[c].order
                /\ \A k \in DOMAIN cache \ {conns[c].key} : cache'[k] = cache[k]
           \/ \E k \in DOMAIN cache :
                /\ now >= cache[k].expires
                /\ cache' = [j \in DOMAIN cache \ {k} |-> cache[j]]]_vars

\* the callback stored an order while the cache held an entry
C9_Witness ==
    /\ cache /= << >>
    /\ handled.fin /\ handled.creates = 1 /\ handled.err = NilErr
    /\ \E k \in DOMAIN cache : k /= handled.order.OrderUID

\* C10: once Subscribe has failed, Main returns.
C10_SubscribeFailureStopsMain ==
    (pcSub /= "subscribe" /\ ~subscribed) ~> (pcMain = "returned")

\* Handler.get wrote the entry of key k less than a ttl of one hour ago
Fresh(k) == filledAt[k] >= 0 /\ now < filledAt[k] + Hour

\* C11: after cache.Set(k, v, time.Hour), Cache.Get(k) gives (v, true) until
\* the hour has passed and the zero Order and false from then on, whether
\* the expired entry is still held or was dropped; and a get by id that
\* comes when no entry of its id is fresh goes to the store, a get that comes
\* while one is fresh goes to the cache.
C11_ExpiredEntryRefetched ==
    [][/\ \A k \in GetIds :
            CacheGet(cache', k, now') =
                IF Fresh(k)' THEN [value |-> first'[k], found |-> TRUE]
                ELSE [value |-> ZeroOrder, found |-> FALSE]
       /\ \A c \in Conns :
            (conns[c].pc = "idle" /\ conns'[c].op = "get" /\ conns'[c].pc /= "idle")
            => conns'[c].pc = IF Fresh(conns'[c].key) THEN "cacheGet" ELSE "repoGet"]_vars

\* a get has fetched the order from the store while the cache still holds
\* the expired entry of its id
C11_Witness ==
    \E c \in Conns :
        /\ conns[c].op = "get" /\ conns[c].pc = "cacheSet" /\ conns[c].fetches = 1
        /\ conns[c].key \in DOMAIN cache /\ now >= cache[conns[c].key].expires
        /\ conns[c].order = first[conns[c].key]

\* C12: a get that fetched the order from the store answers with that order
\* and no error whether cache.Set stored the entry or failed.
C12_SetFailureSwallowed ==
    [][\A c \in Conns :
          (conns[c].pc = "cacheSet" /\ conns'[c].pc = "idle")
          => /\ resp'.op = "get" /\ resp'.key = conns[c].key
             /\ resp'.body = "order" /\ resp'.err = "nil"
             /\ resp'.order = conns[c].order
             /\ resp'.order = Scan(RowOf(table, conns[c].key).data)
             /\ table' = table]_vars

\* a get answered with the stored order although its cache.Set failed: the
\* cache holds nothing under the id
C12_Witness ==
    /\ resp.op = "get" /\ resp.body = "order" /\ resp.fetches = 1
    /\ resp.key \notin DOMAIN cache
    /\ resp.order = OrderB(U2)

\* the orders of a sequence, as a set
Range(seq) == {seq[i] : i \in 1..Len(seq)}

C14_PublishOnlyHandsOver ==
    [][/\ resp'.op = "publish"
          => /\ table' = table /\ cache' = cache /\ first' = first /\ cons' = cons
             /\ bus' = IF resp'.body = "published"
                       THEN Append(bus, Marshal(resp'.order))
                       ELSE bus
             /\ resp'.body = "published"
                => HandleDecode(bus'[Len(bus')]) = [ok |-> TRUE, order |-> resp'.order]
       /\ table' /= table
          => \/ resp'.op = "create"
             \/ handled'.fin /\ handled'.decoded /\ cons.pc = "persisting"
       /\ (/\ handled'.fin /\ handled'.decoded /\ StoreAnswered(handled')
           /\ ~handled'.had /\ Len(handled'.order.OrderUID) <= MaxUidLen)
          => /\ handled'.err = NilErr
             /\ HasRow(table', handled'.order.OrderUID)
             /\ Scan(RowOf(table', handled'.order.OrderUID).data) = handled'.order]_vars

\* the callback stored an order that only a publish request put on the topic
C14_Witness ==
    /\ handled.fin /\ handled.err = NilErr /\ handled.order = OrderB(U2)
    /\ RowOf(table, U2).data = Jsonb(Marshal(OrderB(U2)))
    /\ first[U2] = OrderB(U2)

\* what the callback returns for a decoded order: it depends on the order,
\* the rows and the store's answer alone
Outcome(t, order, fault) ==
    IF fault /= "nil" THEN Wrap("failed to save data to database", fault)
    ELSE IF Len(order.OrderUID) > MaxUidLen
         THEN Wrap("failed to save data to database", "TooLong")
    ELSE IF HasRow(t, order.OrderUID)
         THEN Wrap("failed to save data to database", "Conflict")
    ELSE NilErr

\* C15: the callback goes from idle to persisting only by taking the head
\* message off the topic and decoding it, and from persisting back to idle
\* in one Create whatever its result; a message is never put back or tried
\* again, and what the callback returns depends on the message, the rows and
\* the store's answer only.
C15_ConsumerOncePerMessage ==
    [][/\ (cons.pc = "idle" /\ cons' /= cons)
          => /\ bus /= <<>> /\ bus' = Tail(bus)
             /\ HandleDecode(Head(bus)).ok
             /\ cons' = [pc |-> "persisting", request |-> HandleDecode(Head(bus)).order]
             /\ table' = table /\ ~handled'.fin
       /\ (cons.pc = "persisting" /\ cons' /= cons)
          => /\ cons' = ConsIdle /\ bus' = bus
             /\ handled'.fin /\ handled'.creates = 1 /\ handled'.order = cons.request
             /\ handled'.err = Outcome(table, cons.request, handled'.fault)
       /\ handled'.fin
          => /\ cons' = ConsIdle /\ cons.pc = IF handled'.decoded THEN "persisting" ELSE "idle"
             /\ handled'.creates = IF handled'.decoded THEN 1 ELSE 0
             /\ Len(bus') <= Len(bus)
             /\ Len(table') <= Len(table) + handled'.creates]_vars

\* a message whose Create met an unavailable store was dropped: one Create,
\* no row, nothing left on the topic, the callback idle
C15_Witness ==
    /\ handled.fin /\ handled.fault = "Unavailable" /\ handled.creates = 1
    /\ handled.err = Wrap("failed to save data to database", "Unavailable")
    /\ ~HasRow(table, handled.order.OrderUID)
    /\ cons = ConsIdle /\ bus = <<>>

\* C16: a row, once OrderRepository.Get can return it, stays, and Get
\* returns the same order in every later state: no step that changes the
\* table changes what Get returns for a stored id.
C16_StoredImmutable ==
    [][(table' /= table \/ first' /= first)
        => \A id \in UIDS :
              HasRow(table, id)
              => /\ HasRow(table', id)
                 /\ RepoGet(table', id, "nil") = RepoGet(table, id, "nil")
                 /\ RepoGet(table', id, "nil") = [order |-> first'[id], err |-> "nil"]]_vars

\* the callback was refused an order with other content under a stored
\* order_uid, and Get still returns the first
C16_Witness ==
    /\ handled.fin /\ handled.had /\ handled.err.cause = "Conflict"
    /\ handled.order /= first[handled.order.OrderUID]
    /\ RepoGet(table, handled.order.OrderUID, "nil").order = first[handled.order.OrderUID]

\* C17: every cache entry that has not expired holds, under its key, the
\* order the table holds under that key; so a get answered from an entry the
\* cache found returns what OrderRepository.Get would return.
C17_CacheCoherent ==
    /\ \A k \in DOMAIN cache :
          now < cache[k].expires
          => /\ HasRow(table, k)
             /\ RepoGet(table, k, "nil") = [order |-> cache[k].value, err |-> "nil"]
    /\ (resp.op = "get" /\ resp.body = "order" /\ resp.fetches = 0 /\ resp.found)
       => RepoGet(table, resp.key, "nil") = [order |-> resp.order, err |-> "nil"]

\* two gets of one id both missed and both set the entry (one has, the
\* other is about to) while the callback is persisting another order under
\* that id
C17_Witness ==
    /\ resp.op = "get" /\ resp.body = "order" /\ resp.fetches = 1 /\ resp.key = U1
    /\ U1 \in DOMAIN cache /\ now < cache[U1].expires
    /\ \E c \in Conns : conns[c].pc = "cacheSet" /\ conns[c].key = U1 /\ conns[c].fetches = 1
    /\ cons.pc = "persisting" /\ cons.request.OrderUID = U1
    /\ cons.request /= cache[U1].value

\* C18: a get whose OrderRepository.Get fails answers with the error and
\* leaves the cache as it is; the cache never holds an entry of an id that
\* was not created, nor another value than the order created; and a get
\* that reaches the store after the order was created is given the order.
C18_NoNegativeCaching ==
    [][/\ \A c \in Conns :
            (conns[c].pc = "repoGet" /\ conns'[c].pc = "idle")
            => /\ cache' = cache /\ filledAt' = filledAt
               /\ resp'.op = "get" /\ resp'.body = "error" /\ resp'.err /= "nil"
       /\ \A k \in DOMAIN cache' : k \in DOMAIN first' /\ cache'[k].value = first'[k]
       /\ \A c \in Conns :
            (conns[c].pc = "repoGet" /\ conns'[c] /= conns[c]
               /\ conns[c].key \in DOMAIN first)
            => \/ conns'[c].pc = "cacheSet" /\ conns'[c].order = first[conns[c].key]
               \/ resp'.op = "get" /\ ~StoreAnswered(resp')]_vars

\* a get of an id not yet stored was answered NotFound, nothing is cached
\* under the id, and the callback is about to store an order under it
C18_Witness ==
    /\ resp.op = "get" /\ resp.err = "NotFound" /\ resp.key = U1 /\ resp.fetches = 1
    /\ U1 \notin DOMAIN cache /\ U1 \notin DOMAIN first
    /\ cons.pc = "persisting" /\ cons.request.OrderUID = U1

\* C19: when net.Listen has failed, Main, once past its check of err, has
\* returned the wrapped error of net.Listen and has not started the server.
C19_ListenFailureReturned ==
    (own["main"] = ListenErr /\ pcMain \notin {"listen", "check"})
    => /\ pcMain = "returned"
       /\ ret = Wrap("failed to get http listener", ListenErr.cause)
       /\ pcHttp = "off"

====
